---------------------------- MODULE Spec2Model ----------------------------
(***************************************************************************)
(* A model of the AI news aggregator's ingestion pipeline:                 *)
(*   scheduler.py      process_articles, cleanup_old_articles              *)
(*   services/fetcher  is_ai_relevant, fetch_feed, fetch_all_feeds         *)
(*   services/parser   extract_article_content                             *)
(*   services/summarizer, services/categorizer                             *)
(*                                                                         *)
(* Strings.  A Python str is modelled as the sequence of its               *)
(* space-separated words, "" being << >>.  Character-level facts the code  *)
(* observes (lower-casing, one word occurring inside another, a word's     *)
(* length) are tabulated for the words the model uses, so that str.lower,  *)
(* the `in` operator on strings and len behave as they do in Python on     *)
(* every string built from these words.                                    *)
(***************************************************************************)
EXTENDS Integers, Sequences, FiniteSets, TLC

(***************************************************************************)
(* Static configuration (app/config.py) and keyword tables.                *)
(***************************************************************************)
CATEGORIES ==
  << <<"Large", "Language", "Models", "(LLMs)">>,
     <<"AI", "Research", "&", "Breakthroughs">>,
     <<"AI", "in", "Industry">>,
     <<"AI", "Ethics", "&", "Regulation">>,
     <<"AI", "Startups", "&", "Business">> >>

CATEGORY_KEYWORDS ==
  << [category |-> <<"Large", "Language", "Models", "(LLMs)">>,
      keywords |-> <<<<"chatgpt">>, <<"gpt-4">>, <<"gpt-5">>, <<"claude">>,
        <<"gemini">>, <<"llama">>, <<"mistral">>, <<"llm">>,
        <<"large", "language", "model">>, <<"language", "model">>,
        <<"chat", "bot">>, <<"chatbot">>, <<"openai">>, <<"anthropic">>,
        <<"text", "generation">>, <<"prompt">>, <<"conversation", "ai">>>>],
     [category |-> <<"Computer", "Vision", "&", "Image", "Generation">>,
      keywords |-> <<<<"dall-e">>, <<"midjourney">>,
        <<"stable", "diffusion">>, <<"image", "generation">>,
        <<"computer", "vision">>, <<"image", "recognition">>,
        <<"video", "generation">>, <<"sora">>, <<"visual", "ai">>,
        <<"image", "ai">>, <<"diffusion", "model">>, <<"text-to-image">>,
        <<"object", "detection">>, <<"face", "recognition">>,
        <<"image", "synthesis">>>>],
     [category |-> <<"AI", "Research", "&", "Breakthroughs">>,
      keywords |-> <<<<"research">>, <<"paper">>, <<"study">>,
        <<"breakthrough">>, <<"discovery">>, <<"benchmark">>, <<"dataset">>,
        <<"training">>, <<"model", "architecture">>, <<"neural", "network">>,
        <<"deep", "learning">>, <<"algorithm">>, <<"innovation">>,
        <<"academic">>, <<"researcher">>, <<"scientist">>,
        <<"laboratory">>>>],
     [category |-> <<"AI", "in", "Industry">>,
      keywords |-> <<<<"healthcare">>, <<"medical">>, <<"finance">>,
        <<"banking">>, <<"automotive">>, <<"manufacturing">>, <<"retail">>,
        <<"enterprise">>, <<"business", "application">>, <<"robotics">>,
        <<"automation">>, <<"supply", "chain">>, <<"logistics">>,
        <<"industry">>, <<"sector">>, <<"deployment">>,
        <<"implementation">>>>],
     [category |-> <<"AI", "Ethics", "&", "Regulation">>,
      keywords |-> <<<<"ethics">>, <<"regulation">>, <<"policy">>, <<"law">>,
        <<"governance">>, <<"bias">>, <<"fairness">>, <<"safety">>,
        <<"risk">>, <<"privacy">>, <<"responsible", "ai">>, <<"ai", "act">>,
        <<"legislation">>, <<"compliance">>, <<"transparency">>,
        <<"accountability">>, <<"eu", "ai">>, <<"congress">>>>],
     [category |-> <<"AI", "Startups", "&", "Business">>,
      keywords |-> <<<<"startup">>, <<"funding">>, <<"investment">>,
        <<"acquisition">>, <<"merger">>, <<"valuation">>, <<"series">>,
        <<"venture">>, <<"ipo">>, <<"launch">>, <<"company">>, <<"ceo">>,
        <<"founder">>, <<"billion">>, <<"million">>, <<"market">>,
        <<"revenue">>, <<"growth">>, <<"business">>>>] >>

AI_KEYWORDS ==
  <<<<"ai">>, <<"artificial", "intelligence">>, <<"machine", "learning">>,
        <<"deep", "learning">>, <<"neural", "network">>, <<"gpt">>,
        <<"chatgpt">>, <<"llm">>, <<"large", "language", "model">>,
        <<"openai">>, <<"anthropic">>, <<"claude">>, <<"gemini">>,
        <<"transformer">>, <<"natural", "language", "processing">>,
        <<"nlp">>, <<"computer", "vision">>, <<"generative", "ai">>,
        <<"gen", "ai">>, <<"dall-e">>, <<"midjourney">>,
        <<"stable", "diffusion">>, <<"reinforcement", "learning">>,
        <<"robotics">>, <<"automation">>, <<"algorithm">>,
        <<"data", "science">>, <<"model", "training">>, <<"inference">>,
        <<"embedding">>, <<"ai", "safety">>, <<"ai", "ethics">>,
        <<"ai", "regulation">>, <<"agi">>>>

important_keywords ==
  <<<<"announced">>, <<"launched">>, <<"released">>, <<"developed">>,
     <<"introduced">>, <<"ai">>, <<"artificial", "intelligence">>,
     <<"machine", "learning">>, <<"model">>, <<"breakthrough">>,
     <<"innovation">>, <<"research">>, <<"study">>, <<"found">>,
     <<"million">>, <<"billion">>, <<"percent">>, <<"growth">>, <<"market">>,
     <<"ceo">>, <<"company">>, <<"startup">>, <<"partnership">>,
     <<"acquisition">>>>

DefaultCategory == <<"AI", "Research", "&", "Breakthroughs">>

(***************************************************************************)
(* Character-level tables for the words of the model.                      *)
(*   <<a, b>> \in CharInfix  : a # b and a occurs inside b                 *)
(*   <<a, b>> \in CharPrefix : a # b and b starts with a                   *)
(*   <<a, b>> \in CharSuffix : a # b and b ends with a                     *)
(* b ranges over the lower-cased words of texts, a over the words of the   *)
(* keyword tables and of the texts.                                        *)
(***************************************************************************)
Words ==
  {"&", "(LLMs)", "AI", "Breakthroughs", "Business", "Category:", "Ethics",
     "Industry", "LLM", "Language", "Large", "Midjourney", "Models",
     "OpenAI", "Regulation", "Research", "Startups", "announced", "chatbot",
     "funding", "generation", "healthcare", "image", "in", "law", "model.",
     "new", "research", "sports", "weather", "2024"}

Whitespace == {"\n"}

LowerTable ==
  { <<"(LLMs)", "(llms)">>, <<"AI", "ai">>,
     <<"Breakthroughs", "breakthroughs">>, <<"Business", "business">>,
     <<"Category:", "category:">>, <<"Ethics", "ethics">>,
     <<"Industry", "industry">>, <<"LLM", "llm">>,
     <<"Language", "language">>, <<"Large", "large">>,
     <<"Midjourney", "midjourney">>, <<"Models", "models">>,
     <<"OpenAI", "openai">>, <<"Regulation", "regulation">>,
     <<"Research", "research">>, <<"Startups", "startups">> }

CharInfix ==
  { <<"ai", "openai">>, <<"bot", "chatbot">>,
     <<"breakthrough", "breakthroughs">>, <<"chat", "chatbot">>,
    <<"gen", "generation">>, <<"in", "business">>, <<"in", "funding">>,
     <<"in", "industry">>,
    <<"llm", "(llms)">>, <<"model", "model.">>, <<"model", "models">>,
     <<"startup", "startups">> }

CharPrefix ==
  { <<"breakthrough", "breakthroughs">>, <<"chat", "chatbot">>,
     <<"gen", "generation">>, <<"in", "industry">>,
    <<"model", "model.">>, <<"model", "models">>, <<"startup", "startups">> }

CharSuffix ==
  { <<"ai", "openai">>, <<"bot", "chatbot">> }

WordLen ==
  [w \in Words |-> CASE w = "&" -> 1
       [] w = "(LLMs)" -> 6
       [] w = "AI" -> 2
       [] w = "Breakthroughs" -> 13
       [] w = "Business" -> 8
       [] w = "Category:" -> 9
       [] w = "Ethics" -> 6
       [] w = "Industry" -> 8
       [] w = "LLM" -> 3
       [] w = "Language" -> 8
       [] w = "Large" -> 5
       [] w = "Midjourney" -> 10
       [] w = "Models" -> 6
       [] w = "OpenAI" -> 6
       [] w = "Regulation" -> 10
       [] w = "Research" -> 8
       [] w = "Startups" -> 8
       [] w = "announced" -> 9
       [] w = "chatbot" -> 7
       [] w = "funding" -> 7
       [] w = "generation" -> 10
       [] w = "healthcare" -> 10
       [] w = "image" -> 5
       [] w = "in" -> 2
       [] w = "law" -> 3
       [] w = "model." -> 6
       [] w = "new" -> 3
       [] w = "research" -> 8
       [] w = "sports" -> 6
       [] w = "weather" -> 7
       [] w = "2024" -> 4]

EndsSentence == {"model."}

StartsUpper == {"AI", "Breakthroughs", "Business", "Category:", "Ethics",
     "Industry", "LLM", "Language", "Large", "Midjourney", "Models",
     "OpenAI", "Regulation", "Research", "Startups"}

\* words containing a decimal digit, and words containing a double quote
DigitWords == {"2024"}
QuoteWords == {}

\* re.findall(r'\b\w{4,}\b', w) for a lower-cased word w: the runs of at
\* least four word characters in it
WordRuns(w) ==
  CASE w = "model." -> {"model"}
    [] w = "(llms)" -> {"llms"}
    [] w = "category:" -> {"category"}
    [] w \in {"&", "ai", "in", "law", "llm", "new", "\n"} -> {}
    [] OTHER -> {w}

(***************************************************************************)
(* str operations.                                                         *)
(***************************************************************************)
LowerWord(w) ==
  IF \E p \in LowerTable : p[1] = w
  THEN (CHOOSE p \in LowerTable : p[1] = w)[2]
  ELSE w

\* str.lower()
Lower(s) == [i \in 1..Len(s) |-> LowerWord(s[i])]

\* str.strip(): leading and trailing whitespace removed
RECURSIVE Strip(_)
Strip(s) ==
  IF s = << >> THEN s
  ELSE IF Head(s) \in Whitespace THEN Strip(Tail(s))
  ELSE IF s[Len(s)] \in Whitespace THEN Strip(SubSeq(s, 1, Len(s) - 1))
  ELSE s

Infix(a, b)  == a = b \/ <<a, b>> \in CharInfix
Prefix(a, b) == a = b \/ <<a, b>> \in CharPrefix
Suffix(a, b) == a = b \/ <<a, b>> \in CharSuffix

\* Python's `needle in hay` on two strings
Contains(needle, hay) ==
  LET n == Len(needle) IN
  IF n = 0 THEN TRUE
  ELSE \E i \in 1..(Len(hay) - n + 1) :
         IF n = 1 THEN Infix(needle[1], hay[i])
         ELSE /\ Suffix(needle[1], hay[i])
              /\ \A j \in 2..(n - 1) : needle[j] = hay[i + j - 1]
              /\ Prefix(needle[n], hay[i + n - 1])

\* Python's `x in list`
InList(x, list) == \E i \in 1..Len(list) : list[i] = x

Range(f) == {f[i] : i \in DOMAIN f}

\* all strings of at most n words over the word set W
Texts(W, n) == UNION {[1..k -> W] : k \in 0..n}

(***************************************************************************)
(* services/categorizer.py                                                 *)
(***************************************************************************)
\* sum(1 for kw in keywords if kw in text)
KeywordScore(keywords, text) ==
  Cardinality({k \in 1..Len(keywords) : Contains(keywords[k], text)})

\* variant: of the categories with the top score the last one wins
keyword_categorizeLastMax(title, content, hint) ==
  IF InList(hint, CATEGORIES) THEN hint
  ELSE
    LET text   == Lower(title \o content)
        scores == [c \in 1..Len(CATEGORY_KEYWORDS) |->
                     KeywordScore(CATEGORY_KEYWORDS[c].keywords, text)]
        best   == CHOOSE c \in DOMAIN scores :
                    /\ \A d \in DOMAIN scores : scores[d] <= scores[c]
                    /\ \A d \in (c + 1)..Len(scores) : scores[d] < scores[c]
    IN IF scores[best] > 0 THEN CATEGORY_KEYWORDS[best].category
       ELSE DefaultCategory

keyword_categorize(title, content, hint) ==
  IF InList(hint, CATEGORIES) THEN hint
  ELSE
    LET text   == Lower(title \o content)
        scores == [c \in 1..Len(CATEGORY_KEYWORDS) |->
                     KeywordScore(CATEGORY_KEYWORDS[c].keywords, text)]
        \* max(scores, key=scores.get): the first key, in the dict's
        \* insertion order, that attains the maximum
        best   == CHOOSE c \in DOMAIN scores :
                    /\ \A d \in DOMAIN scores : scores[d] <= scores[c]
                    /\ \A d \in 1..(c - 1) : scores[d] < scores[c]
    IN IF scores[best] > 0 THEN CATEGORY_KEYWORDS[best].category
       ELSE DefaultCategory

NoResult == <<"<none>">>

\* variant: only an exact match is accepted
ValidatedCategoryExactOnly(text) ==
  IF InList(Strip(text), CATEGORIES) THEN Strip(text) ELSE NoResult

\* The validation of the hosted response: the label ai_categorize accepts
\* for the message content `text`, NoResult when it accepts none.
ValidatedCategory(text) ==
  LET category == Strip(text)
      partial  == {i \in 1..Len(CATEGORIES) :
                     \/ Contains(Lower(CATEGORIES[i]), Lower(category))
                     \/ Contains(Lower(category), Lower(CATEGORIES[i]))}
  IN IF InList(category, CATEGORIES) THEN category
     ELSE IF partial # {}
          THEN CATEGORIES[CHOOSE i \in partial : \A j \in partial : i <= j]
          ELSE NoResult

\* reply: what client.chat.completions.create does, [ok |-> FALSE] when it
\* raises and [ok |-> TRUE, text |-> the message content] when it returns
ai_categorize(title, content, reply) ==
  IF ~reply.ok THEN keyword_categorize(title, content, << >>)
  ELSE IF ValidatedCategory(reply.text) # NoResult
       THEN ValidatedCategory(reply.text)
       ELSE keyword_categorize(title, content, << >>)

\* key: settings.OPENAI_API_KEY is set (get_openai_client returns a client)
categorize_article(title, content, hint, key, reply) ==
  IF key THEN ai_categorize(title, content, reply)
  ELSE keyword_categorize(title, content, hint)

(***************************************************************************)
(* services/summarizer.py                                                  *)
(***************************************************************************)
MaxChars == 600
NumSentences == 6

RECURSIVE SumLen(_)
SumLen(s) == IF s = << >> THEN 0 ELSE WordLen[Head(s)] + SumLen(Tail(s))

\* len(s) of a string without surrounding whitespace: its words and the
\* single spaces between them
StrLen(s) == IF s = << >> THEN 0 ELSE SumLen(s) + Len(s) - 1

\* re.sub(r'\s+', ' ', text).strip()
Normalize(text) == SelectSeq(text, LAMBDA w : w \notin Whitespace)

\* re.split(r'(?<=[.!?])\s+(?=[A-Z])', text): a fragment ends after a word
\* ending in . ! ? that is followed by a word starting with a capital
RECURSIVE SplitFrom(_, _)
SplitFrom(rest, cur) ==
  IF rest = << >> THEN <<cur>>
  ELSE IF /\ cur # << >>
          /\ cur[Len(cur)] \in EndsSentence
          /\ Head(rest) \in StartsUpper
       THEN <<cur>> \o SplitFrom(Tail(rest), <<Head(rest)>>)
       ELSE SplitFrom(Tail(rest), Append(cur, Head(rest)))

split_into_sentences(text) ==
  SelectSeq(SplitFrom(Normalize(text), << >>), LAMBDA f : StrLen(f) > 30)

\* twice the score of score_sentence (the code adds halves)
score_sentence(sentence, title, position, total) ==
  LET sentence_lower == Lower(sentence)
      title_words    == UNION {WordRuns(w) : w \in Range(Lower(title))}
      sentence_words == UNION {WordRuns(w) : w \in Range(sentence_lower)}
      overlap        == Cardinality(title_words \cap sentence_words)
      hits           == Cardinality({k \in 1..Len(important_keywords) :
                           Contains(important_keywords[k], sentence_lower)})
      word_count     == Len(sentence)
  IN 4 * overlap
     + 3 * hits
     + (IF position * 5 < total THEN 6
        ELSE IF position * 5 > total * 4 THEN 3 ELSE 0)
     + (IF 15 <= word_count /\ word_count <= 35 THEN 2 ELSE 0)
     + (IF Range(sentence) \cap DigitWords # {} THEN 2 ELSE 0)
     + (IF Range(sentence) \cap QuoteWords # {} THEN 1 ELSE 0)

RECURSIVE JoinAll(_)
JoinAll(ss) == IF ss = << >> THEN << >> ELSE Head(ss) \o JoinAll(Tail(ss))

\* content[:n]: the longest prefix of whole words that fits in n characters
RECURSIVE Truncate(_, _)
Truncate(s, n) ==
  IF StrLen(s) <= n THEN s ELSE Truncate(SubSeq(s, 1, Len(s) - 1), n)

\* variant: the chosen sentences are joined in the order of the sort by
\* score
fallback_summarizeScoreOrder(content, title) ==
  LET sentences == split_into_sentences(content)
      total     == Len(sentences)
      score     == [p \in 1..total |->
                      score_sentence(sentences[p], title, p - 1, total)]
      before(p) == {q \in 1..total :
                      \/ score[q] > score[p]
                      \/ score[q] = score[p] /\ q < p}
      sorted    == [k \in 1..total |->
                      sentences[CHOOSE p \in 1..total :
                                  Cardinality(before(p)) = k - 1]]
  IN IF total = 0 THEN content
     ELSE IF total <= NumSentences THEN JoinAll(sentences)
     ELSE JoinAll(SubSeq(sorted, 1, NumSentences))

\* variant: of the sentences with equal score the later ones come first
fallback_summarizeLateTies(content, title) ==
  LET sentences == split_into_sentences(content)
      total     == Len(sentences)
      score     == [p \in 1..total |->
                      score_sentence(sentences[p], title, p - 1, total)]
      before(p) == {q \in 1..total :
                      \/ score[q] > score[p]
                      \/ score[q] = score[p] /\ q > p}
      top       == {p \in 1..total : Cardinality(before(p)) < NumSentences}
      picked    == [k \in 1..Cardinality(top) |->
                      sentences[CHOOSE p \in top :
                                  Cardinality({q \in top : q < p}) = k - 1]]
  IN IF total = 0 THEN content
     ELSE IF total <= NumSentences THEN JoinAll(sentences)
     ELSE JoinAll(picked)

fallback_summarize(content, title) ==
  LET sentences == split_into_sentences(content)
      total     == Len(sentences)
      \* positions are 0-based in the code
      score     == [p \in 1..total |->
                      score_sentence(sentences[p], title, p - 1, total)]
      \* place of p after the stable sort by score, highest first
      before(p) == {q \in 1..total :
                      \/ score[q] > score[p]
                      \/ score[q] = score[p] /\ q < p}
      top       == {p \in 1..total : Cardinality(before(p)) < NumSentences}
      \* the chosen sentences in their original order
      picked    == [k \in 1..Cardinality(top) |->
                      sentences[CHOOSE p \in top :
                                  Cardinality({q \in top : q < p}) = k - 1]]
  IN IF total = 0
     THEN IF StrLen(content) > MaxChars
          THEN Append(Truncate(content, MaxChars), "...")
          ELSE content
     ELSE IF total <= NumSentences THEN JoinAll(sentences)
     ELSE JoinAll(picked)

\* variant: a failing hosted call yields an empty summary
summarize_articleNoFallback(content, title, key, reply) ==
  IF ~key THEN fallback_summarize(content, title)
  ELSE IF reply.ok THEN Strip(reply.text)
  ELSE << >>

\* reply as in ai_categorize
summarize_article(content, title, key, reply) ==
  IF ~key THEN fallback_summarize(content, title)
  ELSE IF reply.ok THEN Strip(reply.text)
  ELSE fallback_summarize(content, title)

(***************************************************************************)
(* services/fetcher.py                                                     *)
(***************************************************************************)
\* the published time of an entry without one; it sorts as datetime.min
NoDate == 0

is_ai_relevant(title, description) ==
  LET text == Lower(title \o description)
  IN \E k \in 1..Len(AI_KEYWORDS) : Contains(AI_KEYWORDS[k], text)

\* re.sub('<.*?>', '', text): the tags are words of their own in the model
TagWords == {"<p>"}
clean_html(text) == SelectSeq(text, LAMBDA w : w \notin TagWords)

MaxDescription == 500

\* One feed document is a sequence of entries
\*   [title, link, description, published].
\* failAt = 0: nothing raises; failAt = k > 0: the k-th step of the try
\* block raises (step 1 is feedparser.parse, step k + 1 the processing of
\* entry k), and the articles appended so far are returned.
RECURSIVE FeedArticles(_, _, _)
FeedArticles(source, entries, n) ==
  IF n = 0 THEN << >>
  ELSE LET entry == entries[n]
           rest  == FeedArticles(source, entries, n - 1)
           description == clean_html(entry.description)
           article == [title         |-> entry.title,
                       url           |-> entry.link,
                       source_name   |-> source.name,
                       source_url    |-> source.feed_url,
                       description   |-> Truncate(description, MaxDescription),
                       published_at  |-> entry.published,
                       category_hint |-> source.category_hint]
       IN IF ~is_ai_relevant(entry.title, description) THEN rest
          ELSE IF article.url # "" THEN Append(rest, article)
          ELSE rest

fetch_feed(source, entries, failAt) ==
  IF failAt = 0 THEN FeedArticles(source, entries, Len(entries))
  ELSE IF failAt = 1 THEN << >>
  ELSE FeedArticles(source, entries, failAt - 2)

\* list.sort(key=published_at or datetime.min, reverse=True): stable, the
\* newest first
SortNewestFirst(list) ==
  LET n == Len(list)
      before(p) == {q \in 1..n :
                      \/ list[q].published_at > list[p].published_at
                      \/ list[q].published_at = list[p].published_at /\ q < p}
  IN [k \in 1..n |-> list[CHOOSE p \in 1..n : Cardinality(before(p)) = k - 1]]

\* the loop over the sources with the seen_urls filter
RECURSIVE CollectFeeds(_, _, _, _)
CollectFeeds(sources, docs, fails, n) ==
  IF n = 0 THEN << >>
  ELSE LET all_articles == CollectFeeds(sources, docs, fails, n - 1)
           articles     == fetch_feed(sources[n], docs[n], fails[n])
           seen_urls(l) == {l[k].url : k \in 1..Len(l)}
           AddNew[k \in 0..Len(articles)] ==
             IF k = 0 THEN all_articles
             ELSE IF articles[k].url \notin seen_urls(AddNew[k - 1])
                  THEN Append(AddNew[k - 1], articles[k])
                  ELSE AddNew[k - 1]
       IN AddNew[Len(articles)]

\* what the sources return, one list after the other, before the seen_urls
\* filter
RECURSIVE FlatFeeds(_, _, _, _)
FlatFeeds(sources, docs, fails, n) ==
  IF n = 0 THEN << >>
  ELSE FlatFeeds(sources, docs, fails, n - 1)
         \o fetch_feed(sources[n], docs[n], fails[n])

\* variant: of the articles with one URL the last one is kept
fetch_all_feedsLastWins(sources, docs, fails) ==
  LET flat == FlatFeeds(sources, docs, fails, Len(sources))
      kept[k \in 0..Len(flat)] ==
        IF k = 0 THEN << >>
        ELSE IF \E j \in (k + 1)..Len(flat) : flat[j].url = flat[k].url
             THEN kept[k - 1]
             ELSE Append(kept[k - 1], flat[k])
  IN SortNewestFirst(kept[Len(flat)])

fetch_all_feeds(sources, docs, fails) ==
  SortNewestFirst(CollectFeeds(sources, docs, fails, Len(sources)))

(***************************************************************************)
(* services/parser.py and the per-item content of process_articles.        *)
(***************************************************************************)
\* the value of extract_article_content: None when the download or the
\* parse raises or the page has no text, the page text otherwise
None == <<"<None>">>

(***************************************************************************)
(* State.                                                                  *)
(***************************************************************************)
VARIABLES
  catIn,        \* arguments and environment of one call of a function
                \* (categorize_article, fetch_all_feeds, ...)
  catOut,       \* what the call returned, NoResult or NotCalled before it
  store,        \* the articles table: the committed Article rows
  now,          \* datetime.utcnow(), in days
  feeds,        \* the document each source's feed_url currently serves
  apiKey,       \* settings.OPENAI_API_KEY is set
  pc,           \* where process_articles (or a cleanup call) stands
  days,         \* argument of the running cleanup_old_articles call
  deleted,      \* return value of the last cleanup_old_articles call
  cleanupLog,   \* what the last cleanup_old_articles call printed
  raw_articles, \* the list fetch_all_feeds returned
  i,            \* loop index of process_articles (1-based)
  content, summary, category,   \* locals of the current item
  new_count, error_count,
  retval,       \* return value of the last completed process_articles
  runs,         \* number of runs started
  outcome,      \* per fetched item: "pending", "skipped", "saved" or what
                \* raised
  committed,    \* the rows this run has committed
  prev          \* the previous run, when it completed and nothing but time
                \* and feed changes came between

catVars == <<catIn, catOut>>
dbVars  == <<store, now>>
envVars == <<feeds, apiKey>>
runVars == <<pc, days, deleted, cleanupLog, raw_articles, i, content, summary,
             category, new_count, error_count, retval, runs, outcome,
             committed, prev>>
vars == <<catVars, dbVars, envVars, runVars>>

(***************************************************************************)
(* The environment of the pipeline: sources, feed documents, pages and     *)
(* hosted replies.                                                         *)
(***************************************************************************)
MaxRuns == 2

\* process_articles calls cleanup_old_articles(days=7)
RetentionDays == 7

\* arguments of direct cleanup_old_articles calls
CleanupDays == {1, RetentionDays}

\* The instants at which the clock is read, in days: two a day apart, and
\* one at which the first is past the retention window and the second lies
\* exactly on its edge.
Instants == {0, 1, RetentionDays + 1}

\* the first two of the ten configured sources
NEWS_SOURCES ==
  << [name          |-> "MIT Technology Review",
      feed_url      |-> "https://www.technologyreview.com/feed/",
      category_hint |-> <<"AI", "Research", "&", "Breakthroughs">>],
     [name          |-> "The Verge AI",
      feed_url      |-> "https://www.theverge.com/rss/ai-artificial-intelligence/index.xml",
      category_hint |-> <<"Large", "Language", "Models", "(LLMs)">>] >>

EntryOpenAI ==
  [title |-> <<"OpenAI", "announced", "new", "chatbot", "model.">>,
   link |-> "u1", description |-> <<"<p>", "AI", "research">>, published |-> 2]
EntryBrief ==
  [title |-> <<"AI">>, link |-> "u2", description |-> << >>,
   published |-> NoDate]
EntryWeather ==
  [title |-> <<"weather">>, link |-> "u3", description |-> << >>,
   published |-> 3]
EntryUntitled ==
  [title |-> << >>, link |-> "u1",
   description |-> <<"Midjourney", "image", "generation">>, published |-> 3]
EntryNoLink ==
  [title |-> <<"AI", "law">>, link |-> "", description |-> << >>,
   published |-> 3]

\* the documents each source's feed may serve
FeedDocs ==
  << { <<EntryOpenAI, EntryBrief>> },
     { <<EntryWeather, EntryUntitled, EntryNoLink>> } >>

PageText ==
  <<"OpenAI", "announced", "new", "chatbot", "model.",
    "Midjourney", "image", "generation", "2024">>

\* what extract_article_content can return for a URL
Pages == {None, PageText}

Raises == [ok |-> FALSE, text |-> << >>]

SummaryReplies ==
  { Raises,
    [ok |-> TRUE, text |-> <<"\n">>],
    [ok |-> TRUE, text |-> <<"AI", "research", "\n">>] }

CategoryReplies ==
  { Raises,
    [ok |-> TRUE, text |-> <<"AI", "in", "Industry", "\n">>] }

(***************************************************************************)
(* scheduler.py                                                            *)
(***************************************************************************)
InRun == {"cleanup", "fetch", "dedupe", "extract", "summarize", "categorize",
          "persist"}
Idle  == {"idle", "done", "raised", "killed"}

NoPrev == [valid |-> FALSE, store |-> {}, batch |-> << >>, errors |-> 0]
NoReturn == -1

InitRun ==
  /\ pc = "idle"
  /\ days = 0
  /\ deleted = 0
  /\ cleanupLog = "none"
  /\ raw_articles = << >>
  /\ i = 0
  /\ content = None
  /\ summary = None
  /\ category = None
  /\ new_count = 0
  /\ error_count = 0
  /\ retval = NoReturn
  /\ runs = 0
  /\ outcome = << >>
  /\ committed = {}
  /\ prev = NoPrev

Init ==
  /\ catIn = << >>
  /\ catOut = NoResult
  /\ store = {}
  /\ now = 0
  /\ feeds \in {f \in [1..Len(NEWS_SOURCES) -> UNION Range(FeedDocs)] :
                  \A n \in DOMAIN f : f[n] \in FeedDocs[n]}
  /\ apiKey \in BOOLEAN
  /\ InitRun

\* variant: the filter is fetched_at <= cutoff_date
RetainedInclusive(rows, cutoff_date) ==
  {r \in rows : ~(r.fetched_at <= cutoff_date)}

\* db.query(Article).filter(Article.fetched_at < cutoff_date).delete():
\* the rows that remain
Retained(rows, cutoff_date) == {r \in rows : ~(r.fetched_at < cutoff_date)}

\* variant: the lookup never finds the stored row
ExistingNever(url) == FALSE

\* db.query(Article).filter(Article.url == url).first()
Existing(url) == \E r \in store : r.url = url

\* the unique constraint on articles.url (models.py)
UniqueViolation(row) == \E r \in store : r.url = row.url

\* the loop of process_articles moves to the next item, or ends and
\* process_articles returns new_count
Advance ==
  /\ content' = None
  /\ summary' = None
  /\ category' = None
  /\ IF i < Len(raw_articles)
     THEN pc' = "dedupe" /\ i' = i + 1 /\ retval' = retval
     ELSE pc' = "done" /\ i' = i /\ retval' = new_count'

Errors == {"summarize raised", "categorize raised", "commit raised"}

\* variant: the exception leaves the loop, process_articles returns
ItemFailsAborts ==
  /\ error_count' = error_count + 1
  /\ store' = store
  /\ outcome' = [outcome EXCEPT ![i] = "commit raised"]
  /\ UNCHANGED <<now, new_count, committed, i>>
  /\ content' = None
  /\ summary' = None
  /\ category' = None
  /\ pc' = "done"
  /\ retval' = new_count

\* variant: the rollback undoes every insert of the run
ItemFailsRollsBackRun ==
  /\ error_count' = error_count + 1
  /\ store' = store \ committed
  /\ outcome' = [outcome EXCEPT ![i] = "commit raised"]
  /\ UNCHANGED <<now, new_count, committed>>
  /\ Advance

\* the except clause of the per-item try block
ItemFails ==
  /\ error_count' = error_count + 1
  /\ store' = store            \* db.rollback()
  /\ outcome' = [outcome EXCEPT ![i] = CASE pc = "summarize" -> "summarize raised"
                                         [] pc = "categorize" -> "categorize raised"
                                         [] OTHER -> "commit raised"]
  /\ UNCHANGED <<now, new_count, committed>>
  /\ Advance

\* the locals of process_articles when it is not running
Forgotten ==
  /\ raw_articles' = << >>
  /\ outcome' = << >>
  /\ i' = 0
  /\ content' = None
  /\ summary' = None
  /\ category' = None
  /\ new_count' = 0
  /\ error_count' = 0

StartRun ==
  /\ pc \in Idle
  /\ runs < MaxRuns
  /\ runs' = runs + 1
  /\ prev' = IF pc = "done"
             THEN [valid |-> TRUE, store |-> store, batch |-> raw_articles,
                   errors |-> error_count]
             ELSE NoPrev
  /\ pc' = "cleanup"
  /\ days' = RetentionDays
  /\ Forgotten
  /\ committed' = {}
  /\ retval' = NoReturn
  /\ deleted' = 0
  /\ cleanupLog' = "none"
  /\ UNCHANGED <<catVars, dbVars, envVars>>

\* a direct call of cleanup_old_articles(d)
CleanupCall ==
  /\ pc \in Idle
  /\ \E d \in CleanupDays : days' = d
  /\ pc' = "cleanup_call"
  /\ deleted' = 0
  /\ cleanupLog' = "none"
  /\ Forgotten
  /\ committed' = {}
  /\ retval' = NoReturn
  /\ prev' = NoPrev
  /\ UNCHANGED <<catVars, dbVars, envVars, runs>>

AfterCleanup == IF pc = "cleanup" THEN "fetch" ELSE "idle"

\* cleanup_old_articles, the delete and the commit succeed
CleanupDone ==
  /\ pc \in {"cleanup", "cleanup_call"}
  /\ LET cutoff_date == now - days
     IN /\ store' = Retained(store, cutoff_date)
        /\ deleted' = Cardinality(store) - Cardinality(store')
  /\ cleanupLog' = "cleaned"
  /\ pc' = AfterCleanup
  /\ days' = 0
  /\ UNCHANGED <<catVars, now, envVars, raw_articles, i, content,
                 summary, category, new_count, error_count, retval, runs,
                 outcome, committed, prev>>

\* variant: the delete is not rolled back
CleanupFailsNoRollback ==
  /\ pc \in {"cleanup", "cleanup_call"}
  /\ store' = Retained(store, now - days)
  /\ deleted' = 0
  /\ cleanupLog' = "error"
  /\ pc' = AfterCleanup
  /\ days' = 0
  /\ UNCHANGED <<catVars, now, envVars, raw_articles, i, content,
                 summary, category, new_count, error_count, retval, runs,
                 outcome, committed, prev>>

\* cleanup_old_articles, the delete or the commit raises
CleanupFails ==
  /\ pc \in {"cleanup", "cleanup_call"}
  /\ store' = store            \* db.rollback()
  /\ deleted' = 0
  /\ cleanupLog' = "error"
  /\ pc' = AfterCleanup
  /\ days' = 0
  /\ UNCHANGED <<catVars, now, envVars, raw_articles, i, content,
                 summary, category, new_count, error_count, retval, runs,
                 outcome, committed, prev>>

\* where the fetch of each source may raise: nowhere (0), or at one of the
\* steps of its try block
FailPoints(docs) ==
  LET longest == CHOOSE n \in DOMAIN docs :
                   \A m \in DOMAIN docs : Len(docs[m]) <= Len(docs[n])
  IN {f \in [DOMAIN docs -> 0..(Len(docs[longest]) + 1)] :
        \A n \in DOMAIN docs : f[n] <= Len(docs[n]) + 1}

\* raw_articles = fetch_all_feeds(), then new_count = 0, error_count = 0 and
\* the loop starts
Fetch ==
  /\ pc = "fetch"
  /\ \E fails \in FailPoints(feeds) :
       raw_articles' = fetch_all_feeds(NEWS_SOURCES, feeds, fails)
  /\ outcome' = [k \in 1..Len(raw_articles') |-> "pending"]
  /\ new_count' = 0
  /\ error_count' = 0
  /\ IF raw_articles' = << >>
     THEN pc' = "done" /\ i' = 0 /\ retval' = 0
     ELSE pc' = "dedupe" /\ i' = 1 /\ retval' = retval
  /\ UNCHANGED <<catVars, dbVars, envVars, days, deleted, cleanupLog, content,
                 summary, category, runs, committed, prev>>

\* variant: an item whose URL is stored replaces the stored row
DedupeCheckUpsert ==
  /\ pc = "dedupe"
  /\ store' = {r \in store : r.url # raw_articles[i].url}
  /\ pc' = "extract"
  /\ UNCHANGED <<catVars, now, envVars, days, deleted, cleanupLog,
                 raw_articles, new_count, error_count, runs, committed, prev,
                 outcome, i, content, summary, category, retval>>

\* the query by URL returns; an item whose URL is stored is skipped
DedupeCheck ==
  /\ pc = "dedupe"
  /\ UNCHANGED <<catVars, dbVars, envVars, days, deleted, cleanupLog,
                 raw_articles, new_count, error_count, runs, committed, prev>>
  /\ IF Existing(raw_articles[i].url)
     THEN /\ outcome' = [outcome EXCEPT ![i] = "skipped"]
          /\ Advance
     ELSE /\ pc' = "extract"
          /\ UNCHANGED <<outcome, i, content, summary, category, retval>>

\* the query by URL raises: line 74 is outside the per-item try block, so
\* the exception leaves process_articles through the finally clause
DedupeRaises ==
  /\ pc = "dedupe"
  /\ pc' = "raised"
  /\ Forgotten
  /\ UNCHANGED <<catVars, dbVars, envVars, days, deleted, cleanupLog, retval,
                 runs, committed, prev>>

\* variant: an item whose extraction returns None is given up as failed
ExtractNullSkips ==
  /\ pc = "extract"
  /\ \E page \in Pages :
       IF page = None \/ page = << >>
       THEN /\ ItemFails
            /\ UNCHANGED <<catVars, envVars, days, deleted, cleanupLog,
                           raw_articles, runs, prev>>
       ELSE /\ content' = page
            /\ pc' = "summarize"
            /\ UNCHANGED <<catVars, dbVars, envVars, days, deleted,
                           cleanupLog, raw_articles, i, summary, category,
                           new_count, error_count, retval, runs, outcome,
                           committed, prev>>

\* content = extract_article_content(url), the description when it is
\* None or empty
Extract ==
  /\ pc = "extract"
  /\ \E page \in Pages :
       content' = IF page = None \/ page = << >>
                  THEN raw_articles[i].description
                  ELSE page
  /\ pc' = "summarize"
  /\ UNCHANGED <<catVars, dbVars, envVars, days, deleted, cleanupLog,
                 raw_articles, i, summary, category, new_count, error_count,
                 retval, runs, outcome, committed, prev>>

Summarize ==
  /\ pc = "summarize"
  /\ \E reply \in IF apiKey THEN SummaryReplies ELSE {Raises} :
       summary' = summarize_article(content, raw_articles[i].title, apiKey,
                                    reply)
  /\ pc' = "categorize"
  /\ UNCHANGED <<catVars, dbVars, envVars, days, deleted, cleanupLog,
                 raw_articles, i, content, category, new_count, error_count,
                 retval, runs, outcome, committed, prev>>

\* summarize_article raises: get_openai_client() is called outside its try
\* block, and the client's constructor may raise
SummarizeRaises ==
  /\ pc = "summarize"
  /\ apiKey
  /\ ItemFails
  /\ UNCHANGED <<catVars, envVars, days, deleted, cleanupLog, raw_articles,
                 runs, prev>>

Categorize ==
  /\ pc = "categorize"
  /\ \E reply \in IF apiKey THEN CategoryReplies ELSE {Raises} :
       category' = categorize_article(raw_articles[i].title, content,
                                      raw_articles[i].category_hint, apiKey,
                                      reply)
  /\ pc' = "persist"
  /\ UNCHANGED <<catVars, dbVars, envVars, days, deleted, cleanupLog,
                 raw_articles, i, content, summary, new_count, error_count,
                 retval, runs, outcome, committed, prev>>

\* categorize_article raises, as summarize_article does
CategorizeRaises ==
  /\ pc = "categorize"
  /\ apiKey
  /\ ItemFails
  /\ UNCHANGED <<catVars, envVars, days, deleted, cleanupLog, raw_articles,
                 runs, prev>>

MaxStored == 10000

\* Article(...) as process_articles builds it (the id column is left out)
NewArticle ==
  LET article_data == raw_articles[i]
  IN [title        |-> article_data.title,
      url          |-> article_data.url,
      source_name  |-> article_data.source_name,
      source_url   |-> article_data.source_url,
      category     |-> category,
      summary      |-> summary,
      full_content |-> IF content # << >>
                       THEN Truncate(content, MaxStored) ELSE None,
      published_at |-> article_data.published_at,
      fetched_at   |-> now]

\* variant: the commit is not counted
PersistNoCount ==
  /\ pc = "persist"
  /\ ~UniqueViolation(NewArticle)
  /\ store' = store \cup {NewArticle}
  /\ committed' = committed \cup {NewArticle}
  /\ new_count' = new_count
  /\ outcome' = [outcome EXCEPT ![i] = "saved"]
  /\ Advance
  /\ UNCHANGED <<catVars, now, envVars, days, deleted, cleanupLog,
                 raw_articles, error_count, runs, prev>>

\* db.add(new_article); db.commit(); new_count += 1
Persist ==
  /\ pc = "persist"
  /\ ~UniqueViolation(NewArticle)
  /\ store' = store \cup {NewArticle}
  /\ committed' = committed \cup {NewArticle}
  /\ new_count' = new_count + 1
  /\ outcome' = [outcome EXCEPT ![i] = "saved"]
  /\ Advance
  /\ UNCHANGED <<catVars, now, envVars, days, deleted, cleanupLog,
                 raw_articles, error_count, runs, prev>>

\* db.commit() raises (the database fails, or the unique constraint does)
PersistRaises ==
  /\ pc = "persist"
  /\ ItemFails
  /\ UNCHANGED <<catVars, envVars, days, deleted, cleanupLog, raw_articles,
                 runs, prev>>

\* the process is interrupted from outside: its memory is gone, what was
\* committed stays
Kill ==
  /\ pc \in InRun \cup {"cleanup_call"}
  /\ pc' = "killed"
  /\ Forgotten
  /\ days' = 0
  /\ UNCHANGED <<catVars, dbVars, envVars, deleted, cleanupLog, retval, runs,
                 committed, prev>>

\* time passes between runs
Tick ==
  /\ pc \in Idle
  /\ \E t \in Instants :
       /\ t > now
       /\ now' = t
  /\ UNCHANGED <<catVars, store, envVars, runVars>>

Next ==
  \/ StartRun
  \/ CleanupCall
  \/ CleanupDone
  \/ CleanupFails
  \/ Fetch
  \/ DedupeCheck
  \/ DedupeRaises
  \/ Extract
  \/ Summarize
  \/ SummarizeRaises
  \/ Categorize
  \/ CategorizeRaises
  \/ Persist
  \/ PersistRaises
  \/ Kill
  \/ Tick

Spec == Init /\ [][Next]_vars

(***************************************************************************)
(* Claims about the pipeline (checked under Spec).                         *)
(***************************************************************************)
UniqueUrls == \A r1, r2 \in store : r1.url = r2.url => r1 = r2

\* the dedupe query returned for an item whose URL is stored
SkipsStored ==
  (/\ pc = "dedupe"
   /\ \E r \in store : r.url = raw_articles[i].url
   /\ pc' \notin {"raised", "killed"}
   /\ pc' # pc \/ i' # i)
  => /\ store' = store
     /\ new_count' = new_count
     /\ error_count' = error_count
     /\ outcome'[i] = "skipped"
     /\ pc' \in {"dedupe", "done"}

\* C1: no two stored rows share a URL, and an item whose URL is stored is
\* skipped with the stored row left as it was.
C1_UrlUniqueAndStoredSkipped == [](UniqueUrls) /\ [][SkipsStored]_vars

C1_Witness ==
  /\ pc = "done"
  /\ \E k \in 1..Len(raw_articles) :
       /\ outcome[k] = "skipped"
       /\ \E r \in store : r.url = raw_articles[k].url

C3_RowsFullyPopulated ==
  \A r \in store :
    /\ r.title # << >>
    /\ r.url # ""
    /\ r.source_name # ""
    /\ r.category \notin {<< >>, None}
    /\ r.summary \notin {<< >>, None}

\* a step of the per-item try block raised for item i
ItemRaised ==
  /\ pc \in {"summarize", "categorize", "persist"}
  /\ Len(outcome') >= i
  /\ outcome'[i] \in Errors

FailureIsolated ==
  ItemRaised
  => /\ store' = store
     /\ error_count' = error_count + 1
     /\ new_count' = new_count
     /\ \/ i < Len(raw_articles) /\ pc' = "dedupe" /\ i' = i + 1
        \/ i = Len(raw_articles) /\ pc' = "done" /\ retval' = new_count

AllAttempted ==
  pc = "done"
  => \A k \in 1..Len(raw_articles) :
       /\ outcome[k] # "pending"
       /\ outcome[k] = "saved"
            => \E r \in store \cap committed : r.url = raw_articles[k].url
       /\ outcome[k] \in Errors
            => ~ \E r \in store : r.url = raw_articles[k].url

\* C6: when a step raises for item k no row is written for it, the error
\* counter grows by one, and the items after k are still attempted and
\* persisted when their own steps succeed.
C6_ItemFailureIsolated == [](AllAttempted) /\ [][FailureIsolated]_vars

C6_Witness ==
  /\ pc = "done"
  /\ Len(raw_articles) = 2
  /\ outcome[1] \in Errors
  /\ outcome[2] = "saved"

\* C7: no failure of a step leaves process_articles as an exception.
C7_NoFailurePropagates == pc # "raised"

\* C8: a row committed during a run stays in the store, unaltered, in every
\* later state of that run.
C8_CommittedRowsStay == committed \subseteq store

C8_Witness ==
  /\ Len(raw_articles) = 2
  /\ outcome[1] = "saved"
  /\ outcome[2] \in Errors
  /\ committed # {}

\* C9: a successful cleanup removes exactly the rows with
\* fetched_at < now - days and returns their number.
C9_CleanupRemovesExactlyOld ==
  [][ (pc \in {"cleanup", "cleanup_call"} /\ cleanupLog' = "cleaned")
      => /\ store' = {r \in store : r.fetched_at >= now - days}
         /\ deleted' = Cardinality(store \ store') ]_vars

\* after cleanup_old_articles(7) at day 8: the row fetched at day 0 is gone,
\* the row fetched at day 1, exactly on the edge, is kept
C9_Witness ==
  /\ pc = "idle"
  /\ cleanupLog = "cleaned"
  /\ now = RetentionDays + 1
  /\ deleted = 1
  /\ \E r \in store : r.fetched_at = 1

\* C10: a failing cleanup leaves the table unchanged and returns 0, and
\* process_articles goes on to fetch.
C10_CleanupFailureHarmless ==
  [][ (pc \in {"cleanup", "cleanup_call"} /\ cleanupLog' = "error")
      => /\ store' = store
         /\ deleted' = 0
         /\ pc' = (IF pc = "cleanup" THEN "fetch" ELSE "idle") ]_vars

\* a run whose cleanup failed over a table with an expired row went on to
\* the loop and saved an item
C10_Witness ==
  /\ cleanupLog = "error"
  /\ pc = "done"
  /\ new_count > 0
  /\ \E r \in store : r.fetched_at < now - RetentionDays

(***************************************************************************)
(* Specification of categorize_article as a function of its inputs.        *)
(***************************************************************************)
MaxTitleLen == 1
MaxContentLen == 2

CatWords == {"OpenAI", "Midjourney", "research", "law", "weather"}

CatHints ==
  { << >>, <<"AI", "Ethics", "&", "Regulation">>,
    <<"Computer", "Vision", "&", "Image", "Generation">>, <<"sports">> }

CatReplies ==
  { [ok |-> FALSE, text |-> << >>],
    [ok |-> TRUE, text |-> <<"AI", "in", "Industry", "\n">>],
    [ok |-> TRUE, text |-> <<"Category:", "AI", "in", "Industry">>],
    [ok |-> TRUE, text |-> <<"LLM">>],
    [ok |-> TRUE, text |-> <<"\n">>],
    [ok |-> TRUE, text |-> <<"sports">>] }

CatInputs ==
  [title : Texts(CatWords, MaxTitleLen), content : Texts(CatWords, MaxContentLen),
   hint : CatHints, key : {FALSE}, reply : {[ok |-> FALSE, text |-> << >>]}]
  \cup
  [title : Texts(CatWords, MaxTitleLen), content : Texts(CatWords, MaxContentLen),
   hint : CatHints, key : {TRUE}, reply : CatReplies]

InitCat ==
  /\ catIn \in CatInputs
  /\ catOut = NoResult
  /\ store = {}
  /\ now = 0
  /\ feeds = [n \in 1..Len(NEWS_SOURCES) |-> << >>]
  /\ apiKey = catIn.key
  /\ InitRun

CategorizeCall ==
  /\ catOut = NoResult
  /\ catOut' = categorize_article(catIn.title, catIn.content, catIn.hint,
                                  catIn.key, catIn.reply)
  /\ UNCHANGED <<catIn, dbVars, envVars, runVars>>

NextCat == CategorizeCall

SpecCat == InitCat /\ [][NextCat]_vars

(***************************************************************************)
(* Claims about categorize_article (checked under SpecCat).                *)
(***************************************************************************)
\* the call resolved through keyword_categorize
KeywordPath(in) ==
  \/ ~in.key
  \/ ~in.reply.ok
  \/ ValidatedCategory(in.reply.text) = NoResult

\* C4: on every path categorize_article returns a member of
\* settings.CATEGORIES.
C4_ResultInCategories ==
  catOut # NoResult => InList(catOut, CATEGORIES)

\* C5: whenever the call resolves through the keyword path and hint is a
\* known category, the result is that hint.
C5_HintWinsOnKeywordPath ==
  (catOut # NoResult /\ KeywordPath(catIn) /\ InList(catIn.hint, CATEGORIES))
    => catOut = catIn.hint

(***************************************************************************)
(* Specification of fetch_feed and fetch_all_feeds as functions of the     *)
(* feed documents and of the step at which each source's fetch raises.     *)
(***************************************************************************)
MaxEntries == 2

NotCalled == [fn |-> "none"]

FetchEntries == {EntryOpenAI, EntryBrief, EntryWeather, EntryUntitled}

FetchDocs == UNION {[1..k -> FetchEntries] : k \in 0..MaxEntries}

FetchInputs ==
  {in \in [docs  : [1..Len(NEWS_SOURCES) -> FetchDocs],
           fails : [1..Len(NEWS_SOURCES) -> 0..(MaxEntries + 1)]] :
     \A n \in 1..Len(NEWS_SOURCES) : in.fails[n] <= Len(in.docs[n]) + 1}

InitFetch ==
  /\ catIn \in FetchInputs
  /\ catOut = NotCalled
  /\ store = {}
  /\ now = 0
  /\ feeds = catIn.docs
  /\ apiKey = FALSE
  /\ InitRun

FetchFeedCall ==
  /\ catOut = NotCalled
  /\ \E n \in 1..Len(NEWS_SOURCES) :
       catOut' = [fn     |-> "fetch_feed",
                  source |-> n,
                  value  |-> fetch_feed(NEWS_SOURCES[n], catIn.docs[n],
                                        catIn.fails[n])]
  /\ UNCHANGED <<catIn, dbVars, envVars, runVars>>

FetchAllCall ==
  /\ catOut = NotCalled
  /\ catOut' = [fn    |-> "fetch_all_feeds",
                value |-> fetch_all_feeds(NEWS_SOURCES, catIn.docs,
                                          catIn.fails)]
  /\ UNCHANGED <<catIn, dbVars, envVars, runVars>>

NextFetch ==
  \/ FetchFeedCall
  \/ FetchAllCall

SpecFetch == InitFetch /\ [][NextFetch]_vars

(***************************************************************************)
(* Claims about the fetcher (checked under SpecFetch).                     *)
(***************************************************************************)
\* C11: a source whose fetch or parse fails at any point contributes no
\* item, and fetch_all_feeds still returns the items of every other source.
C11_FailedFeedYieldsNothing ==
  /\ (catOut.fn = "fetch_feed" /\ catIn.fails[catOut.source] # 0)
       => catOut.value = << >>
  /\ catOut.fn = "fetch_all_feeds"
       => \A n \in 1..Len(NEWS_SOURCES) :
            catIn.fails[n] = 0
            => \A a \in Range(fetch_feed(NEWS_SOURCES[n], catIn.docs[n], 0)) :
                 \E b \in Range(catOut.value) : b.url = a.url

\* C12: the list fetch_all_feeds returns holds each URL at most once, and
\* for each URL the article kept is its first occurrence in source order,
\* then entry order.
C12_FirstOccurrenceSurvives ==
  catOut.fn = "fetch_all_feeds"
  => LET out  == catOut.value
         flat == FlatFeeds(NEWS_SOURCES, catIn.docs, catIn.fails,
                           Len(NEWS_SOURCES))
     IN /\ \A j, k \in DOMAIN out : out[j].url = out[k].url => j = k
        /\ Range(out) =
             {flat[k] : k \in {m \in DOMAIN flat :
                                 \A j \in 1..(m - 1) :
                                   flat[j].url # flat[m].url}}

\* two sources serve an entry with the URL u1 and neither fetch fails: the
\* article of the first source is the one returned
C12_Witness ==
  /\ catOut.fn = "fetch_all_feeds"
  /\ catIn.fails = [n \in 1..Len(NEWS_SOURCES) |-> 0]
  /\ catIn.docs[1] = <<EntryOpenAI>>
  /\ catIn.docs[2] = <<EntryBrief, EntryUntitled>>
  /\ Len(catOut.value) = 2
  /\ \E k \in 1..2 : /\ catOut.value[k].url = "u1"
                      /\ catOut.value[k].title = EntryOpenAI.title

(***************************************************************************)
(* Specification of summarize_article, split_into_sentences and            *)
(* categorize_article as functions of an article's text.                   *)
(***************************************************************************)
MaxSentences == 7
MaxHostedSentences == 2

\* three fragments that re.split separates: each starts with a capital and
\* ends with a full stop.  The first is 30 characters long, the others 31.
FragShort == <<"Breakthroughs", "announced", "model.">>
FragLong  == <<"Breakthroughs", "healthcare", "model.">>
FragPlain == <<"Breakthroughs", "generation", "model.">>

Fragments == {FragLong, FragPlain}

\* up to n fragments of more than 30 characters, after the 30-character
\* fragment or not
SumContents(n) ==
  {head \o JoinAll(fs) :
     head \in {<< >>, FragShort},
     fs \in UNION {[1..k -> Fragments] : k \in 0..n}}

SumTitles == {<< >>, <<"healthcare">>}

SumHints == {<< >>, <<"AI", "Ethics", "&", "Regulation">>}

\* without a credential: articles of up to MaxSentences sentences; with
\* one: articles of up to MaxHostedSentences, the hosted call raising or
\* returning
SumInputs ==
  [content : SumContents(MaxSentences), title : SumTitles, hint : {<< >>},
   key : {FALSE}, reply : {Raises}]
  \cup
  [content : SumContents(MaxHostedSentences), title : SumTitles,
   hint : SumHints, key : {FALSE}, reply : {Raises}]
  \cup
  [content : SumContents(MaxHostedSentences), title : SumTitles,
   hint : SumHints, key : {TRUE},
   reply : {Raises, [ok |-> TRUE, text |-> <<"AI", "research", "\n">>]}]

InitSum ==
  /\ catIn \in SumInputs
  /\ catOut = NotCalled
  /\ store = {}
  /\ now = 0
  /\ feeds = [n \in 1..Len(NEWS_SOURCES) |-> << >>]
  /\ apiKey = catIn.key
  /\ InitRun

SummarizeCall ==
  /\ catOut = NotCalled
  /\ catOut' = [fn    |-> "summarize_article",
                value |-> summarize_article(catIn.content, catIn.title,
                                            catIn.key, catIn.reply)]
  /\ UNCHANGED <<catIn, dbVars, envVars, runVars>>

SplitCall ==
  /\ catOut = NotCalled
  /\ catOut' = [fn    |-> "split_into_sentences",
                value |-> split_into_sentences(catIn.content)]
  /\ UNCHANGED <<catIn, dbVars, envVars, runVars>>

CategorizeArticleCall ==
  /\ catOut = NotCalled
  /\ catOut' = [fn    |-> "categorize_article",
                value |-> categorize_article(catIn.title, catIn.content,
                                             catIn.hint, catIn.key,
                                             catIn.reply)]
  /\ UNCHANGED <<catIn, dbVars, envVars, runVars>>

NextSum ==
  \/ SummarizeCall
  \/ SplitCall
  \/ CategorizeArticleCall

SpecSum == InitSum /\ [][NextSum]_vars

(***************************************************************************)
(* Claims about the summarizer (checked under SpecSum).                    *)
(***************************************************************************)
\* C13: without a credential summarize_article returns what
\* fallback_summarize returns and categorize_article what
\* keyword_categorize returns with the hint; and when the hosted
\* summarization call fails summarize_article returns what
\* fallback_summarize returns.
C13_NoCredentialRoutesLocal ==
  /\ (catOut.fn = "summarize_article" /\ (~catIn.key \/ ~catIn.reply.ok))
       => catOut.value = fallback_summarize(catIn.content, catIn.title)
  /\ (catOut.fn = "categorize_article" /\ ~catIn.key)
       => catOut.value =
            keyword_categorize(catIn.title, catIn.content, catIn.hint)

\* the hosted call failed on an article with sentences to choose from
C13_Witness ==
  /\ catOut.fn = "summarize_article"
  /\ catIn.key /\ ~catIn.reply.ok
  /\ catIn.content = FragLong \o FragPlain
  /\ catOut.value = FragLong \o FragPlain

\* the call resolved through fallback_summarize
LocalSummary ==
  /\ catOut.fn = "summarize_article"
  /\ ~catIn.key \/ ~catIn.reply.ok

\* the sentences at the positions T, in their original order, joined by
\* single spaces
JoinChosen(sentences, T) ==
  JoinAll([k \in 1..Cardinality(T) |->
             sentences[CHOOSE p \in T : Cardinality({q \in T : q < p}) = k - 1]])

\* C15: with n >= 1 qualifying sentences the local summary is min(n, 6) of
\* them, at distinct positions, joined by single spaces in their original
\* order; with n <= 6 it is all of them.
C15_SummaryIsSentencesInOrder ==
  LocalSummary
  => LET sentences == split_into_sentences(catIn.content)
         n         == Len(sentences)
         m         == IF n < NumSentences THEN n ELSE NumSentences
     IN n >= 1
        => /\ \E T \in SUBSET (1..n) :
                /\ Cardinality(T) = m
                /\ catOut.value = JoinChosen(sentences, T)
           /\ n <= NumSentences => catOut.value = JoinAll(sentences)

\* seven sentences qualify and six of them are returned
C15_Witness ==
  /\ LocalSummary
  /\ Len(split_into_sentences(catIn.content)) = NumSentences + 1
  /\ Len(catOut.value) = 3 * NumSentences
  /\ \E k \in 1..Len(catOut.value) : catOut.value[k] = "generation"

\* C16: with more than 6 qualifying sentences the 6 selected are the
\* highest scoring, and of the sentences with the score at the cut the
\* earlier ones are selected.
C16_HighestScoringSelected ==
  LocalSummary
  => LET sentences == split_into_sentences(catIn.content)
         n         == Len(sentences)
         score     == [p \in 1..n |->
                         score_sentence(sentences[p], catIn.title, p - 1, n)]
     IN n > NumSentences
        => \E T \in SUBSET (1..n) :
             /\ Cardinality(T) = NumSentences
             /\ catOut.value = JoinChosen(sentences, T)
             /\ \A p \in T, q \in (1..n) \ T :
                  \/ score[p] > score[q]
                  \/ score[p] = score[q] /\ p < q

\* the third to sixth of seven sentences score the same, the sixth differs
\* from the others in its text, and it is the one left out
C16_Witness ==
  /\ LocalSummary
  /\ catIn.title = << >>
  /\ catIn.content =
       JoinAll(<<FragLong, FragLong, FragLong, FragLong, FragLong,
                 FragPlain, FragLong>>)
  /\ catOut.value =
       JoinAll(<<FragLong, FragLong, FragLong, FragLong, FragLong,
                 FragLong>>)

\* C19: split_into_sentences keeps exactly the fragments of 30 characters
\* or more.
C19_KeepsThirtyOrMore ==
  catOut.fn = "split_into_sentences"
  => catOut.value =
       SelectSeq(SplitFrom(Normalize(catIn.content), << >>),
                 LAMBDA f : StrLen(f) >= 30)

C18_ResponseValidation ==
  (catOut # NoResult /\ catIn.key /\ catIn.reply.ok)
  => LET r        == Strip(catIn.reply.text)
         match(c) == \/ Contains(Lower(c), Lower(r))
                     \/ Contains(Lower(r), Lower(c))
         partial  == {k \in 1..Len(CATEGORIES) : match(CATEGORIES[k])}
     IN IF InList(r, CATEGORIES) THEN catOut = r
        ELSE IF partial # {}
             THEN \E k \in partial : /\ catOut = CATEGORIES[k]
                                     /\ \A j \in partial : k <= j
             ELSE catOut = keyword_categorize(catIn.title, catIn.content,
                                              << >>)

\* the response is empty after trimming: every category contains it, and
\* the first one is returned whatever the article's keywords
C18_Witness ==
  /\ catIn.key /\ catIn.reply.ok
  /\ Strip(catIn.reply.text) = << >>
  /\ catIn.content = <<"law">>
  /\ catOut = CATEGORIES[1]

(***************************************************************************)
(* Claims about the per-item steps and the counters of process_articles    *)
(* (checked under Spec).                                                   *)
(***************************************************************************)
\* C14: when extraction returns None the item's description becomes the
\* content and the item goes on to summarize: it is neither skipped nor
\* counted as an error.  (A step of the extraction after which content is
\* not a page text is one at which extraction returned None.)
C14_NullExtractionUsesDescription ==
  [][ (/\ pc = "extract"
       /\ pc' # "killed"
       /\ content' \notin (Pages \ {None}))
      => /\ content' = raw_articles[i].description
         /\ pc' = "summarize"
         /\ i' = i
         /\ outcome' = outcome
         /\ error_count' = error_count
         /\ store' = store ]_vars

\* a run without error saved an item with its description as content
C14_Witness ==
  /\ pc = "done"
  /\ error_count = 0
  /\ \E k \in 1..Len(raw_articles) :
       /\ outcome[k] = "saved"
       /\ raw_articles[k].description # << >>
       /\ \E r \in store \cap committed :
            /\ r.url = raw_articles[k].url
            /\ r.full_content = raw_articles[k].description

\* C20: when a run is done every fetched item has been counted once, as
\* new, as an error or as skipped; new_count is the number of rows the run
\* added to the store, and it is the value returned.
C20_EveryItemCountedOnce ==
  pc = "done"
  => LET items   == 1..Len(raw_articles)
         skipped == {k \in items : outcome[k] = "skipped"}
     IN /\ new_count + error_count + Cardinality(skipped)
             = Len(raw_articles)
        /\ new_count = Cardinality({k \in items : outcome[k] = "saved"})
        /\ error_count = Cardinality({k \in items : outcome[k] \in Errors})
        /\ new_count = Cardinality(committed)
        /\ committed \subseteq store
        /\ retval = new_count

\* a run over two items skipped one and saved the other
C20_Witness ==
  /\ pc = "done"
  /\ Len(raw_articles) = 2
  /\ \E k \in 1..2 : outcome[k] = "skipped"
  /\ new_count = 1
  /\ retval = 1

=============================================================================
